---- MODULE Spec2Model ----
(***************************************************************************)
(* GIF processing service (src/app.py): upload (split / resize / persist), *)
(* horizontal flip and RGB channel swap over a flat storage directory.     *)
(*                                                                         *)
(* A file name is a record [stem, ext] (what os.path.splitext yields).     *)
(* A file's content is either opaque bytes that Pillow cannot open, or a   *)
(* GIF: a sequence of frames plus the metadata Pillow exposes in .info.    *)
(* A frame is [size, px]; px lists the colours of the frame's columns      *)
(* sampled at Len(px) equally spaced positions, a colour being <<r,g,b>>.  *)
(* An optional .info key is a sequence: <<>> when absent, <<v>> when set.  *)
(***************************************************************************)
EXTENDS Integers, Sequences, FiniteSets, TLC

VARIABLES files, nextId, pending, nreq, nupload, last

vars == <<files, nextId, pending, nreq, nupload, last>>

(* ------------------------------ bounds --------------------------------- *)

\* number of HTTP requests accepted in one behaviour
MaxRequests == 4

\* number of those requests that may be uploads
MaxUploads == 1

\* largest number of frames of an uploaded GIF
MaxFrames == 2

(* ------------------------- program constants --------------------------- *)

\* frame.resize((240, 240), ...)
TargetSize == 240

\* info.get('duration', 100)
DefaultDuration == 100

\* info.get('loop', 0)
DefaultLoop == 0

\* the GIF default when save() is given no disposal
DefaultDisposal == 0

\* save_params['disposal'] = 2
TransparentDisposal == 2

(* ------------------------------ helpers -------------------------------- *)

Range(s) == {s[i] : i \in DOMAIN s}

\* dict.get(key, default) on an optional .info key
InfoGet(opt, default) == IF opt = <<>> THEN default ELSE opt[1]

RECURSIVE SumSeq(_)
SumSeq(s) == IF s = <<>> THEN 0 ELSE Head(s) + SumSeq(Tail(s))

\* str.lower() / str.upper() on one character of the modelled alphabet
LowerChar(c) ==
    CASE c = "R" -> "r"
      [] c = "G" -> "g"
      [] c = "B" -> "b"
      [] c = "X" -> "x"
      [] OTHER -> c

UpperChar(c) ==
    CASE c = "r" -> "R"
      [] c = "g" -> "G"
      [] c = "b" -> "B"
      [] c = "x" -> "X"
      [] OTHER -> c

Lower(s) == [i \in DOMAIN s |-> LowerChar(s[i])]

\* str.lower() on a file extension
LowerExt(e) ==
    CASE e = ".GIF" -> ".gif"
      [] e = ".Gif" -> ".gif"
      [] e = ".PNG" -> ".png"
      [] OTHER -> e

(* --------------------------- file contents ----------------------------- *)

EmptyBytes == [kind |-> "bytes", data |-> "empty"]

GarbageBytes == [kind |-> "bytes", data |-> "garbage"]

IsGif(c) == c.kind = "gif"

Gif(frames, durations, loop, transparency, disposal) ==
    [kind |-> "gif", frames |-> frames, durations |-> durations,
     loop |-> loop, transparency |-> transparency, disposal |-> disposal]

\* Image.open(path): raises unless the bytes are an image
CanOpen(c) == IsGif(c)

\* ImageSequence.Iterator(image) leaves the image on its last frame, so
\* image.info afterwards is the last frame's info
InfoAfterIteration(img) ==
    [duration |-> img.durations[Len(img.frames)],
     loop |-> img.loop,
     transparency |-> img.transparency]

\* frames[0].save(path, save_all=True, append_images=frames[1:],
\*                duration=<one number>, loop=..., [transparency], [disposal])
SaveGif(frames, duration, loop, transparency, disposal) ==
    Gif(frames, [i \in 1..Len(frames) |-> <<duration>>], <<loop>>,
        transparency, disposal)

(* ---------------------------- storage ---------------------------------- *)

\* os.path.exists(os.path.join(OUTPUT_DIR, name))
Exists(dir, name) == name \in DOMAIN dir

\* open(path, "wb").write(...), Image.save(path), shutil.copy(src, path)
WriteFile(dir, name, content) ==
    [n \in (DOMAIN dir) \cup {name} |-> IF n = name THEN content ELSE dir[n]]

\* os.remove(path)
RemoveFile(dir, name) == [n \in (DOMAIN dir) \ {name} |-> dir[n]]

\* f"{uuid.uuid4()}.gif": the n-th uuid drawn by the process
ServerFilename(n) == [stem |-> "u" \o ToString(n), ext |-> ".gif"]

\* f"temp_{uuid.uuid4()}.gif"
TempFilename(n) == [stem |-> "temp_u" \o ToString(n), ext |-> ".gif"]

\* f"{name}_original{ext}" after os.path.splitext
OriginalPath(name) == [stem |-> name.stem \o "_original", ext |-> name.ext]

\* f"/processed/{server_filename}"
Url(name) == "/processed/" \o name.stem \o name.ext

(* ------------------------ geometry transforms -------------------------- *)

\* frame.crop((x0, y0, x1, y1)): the columns x0 <= x < x1, as samples
Crop(frame, box) ==
    LET w == frame.size[1]
        n == Len(frame.px)
    IN  [size |-> <<box[3] - box[1], box[4] - box[2]>>,
         px   |-> SubSeq(frame.px, (box[1] * n) \div w + 1, (box[3] * n) \div w)]

\* frame.resize((w, h), LANCZOS): the canvas changes, the samples are kept
Resize(frame, w, h) == [size |-> <<w, h>>, px |-> frame.px]

\* Image.FLIP_TOP_BOTTOM in place of FLIP_LEFT_RIGHT: the columns stay
FlipTopBottom(frame) == frame

\* frame.transpose(Image.FLIP_LEFT_RIGHT): mirrors the columns
FlipLeftRight(frame) ==
    [size |-> frame.size,
     px   |-> [i \in 1..Len(frame.px) |-> frame.px[Len(frame.px) + 1 - i]]]

\* .convert("RGB").quantize(colors=256, MEDIANCUT): exact for a frame of at
\* most 256 colours; beyond that the palette is cut down to 256 entries
Quantize(frame) ==
    IF Cardinality(Range(frame.px)) <= 256
    THEN frame
    ELSE [size |-> frame.size, px |-> [i \in DOMAIN frame.px |-> frame.px[1]]]

\* [source_channels.find(c.upper()) for c in rgb_map], 0-based as in Python
ChannelIndex(c) ==
    CASE UpperChar(c) = "R" -> 0
      [] UpperChar(c) = "G" -> 1
      [] UpperChar(c) = "B" -> 2
      [] OTHER -> -1

\* the mapping read backwards: input channel k goes to output rgb_map[k]
channel_map_inverse(rgb_map) ==
    [j \in DOMAIN rgb_map |->
        (CHOOSE k \in DOMAIN rgb_map : ChannelIndex(rgb_map[k]) = j - 1) - 1]

channel_map_indices(rgb_map) == [i \in DOMAIN rgb_map |-> ChannelIndex(rgb_map[i])]

\* swapped_channels = [channels[i] for i in channel_map_indices], merged
SwapPixel(p, indices) == [k \in 1..3 |-> p[indices[k] + 1]]

SwapFrame(frame, indices) ==
    [size |-> frame.size,
     px   |-> [i \in DOMAIN frame.px |-> SwapPixel(frame.px[i], indices)]]

(* --------------------- duration and display name ----------------------- *)

\* round(ms / 1000.0, 2) in hundredths of a second (ties to even)
RoundCs(ms) ==
    LET q == ms \div 10
        r == ms % 10
    IN  IF r < 5 THEN q
        ELSE IF r > 5 THEN q + 1
        ELSE IF q % 2 = 0 THEN q ELSE q + 1

get_gif_duration(image) ==
    LET n == Len(image.frames)
        duration_ms ==
            SumSeq([i \in 1..n |-> InfoGet(image.durations[i], DefaultDuration)])
    IN  IF n <= 1
        THEN RoundCs(InfoGet(InfoAfterIteration(image).duration, DefaultDuration))
        ELSE RoundCs(duration_ms)

\* str(int(duration_s)) or str(duration_s).replace('.', '_')
DurationStr(cs) ==
    LET whole == cs \div 100
        frac  == cs % 100
    IN  IF frac = 0 THEN ToString(whole)
        ELSE IF frac % 10 = 0
             THEN ToString(whole) \o "_" \o ToString(frac \div 10)
             ELSE ToString(whole) \o "_" \o ToString(frac \div 10)
                                  \o ToString(frac % 10)

create_default_filename(prefix, duration_cs, suffix) ==
    IF suffix # ""
    THEN prefix \o "_" \o DurationStr(duration_cs) \o "s_" \o suffix \o ".gif"
    ELSE prefix \o "_" \o DurationStr(duration_cs) \o "s.gif"

(* ------------------------- upload pipeline ----------------------------- *)

\* the ratio rounded to the nearest integer in place of the exact test
should_split_rounded(size) == (2 * size[1] + size[2]) \div (2 * size[2]) = 2

\* should_split = width == 2 * height
should_split(size) == size[1] = 2 * size[2]

\* the frame sequences process_gif builds, with suffix and display name
images_to_process(img, original_filename) ==
    LET filename_prefix == original_filename.stem
        width  == img.frames[1].size[1]
        height == img.frames[1].size[2]
        duration_s == get_gif_duration(img)
        left_box  == <<0, 0, width \div 2, height>>
        right_box == <<width \div 2, 0, width, height>>
    IN  IF should_split(<<width, height>>)
        THEN << [frames |-> [i \in DOMAIN img.frames |-> Crop(img.frames[i], left_box)],
                 suffix |-> "left",
                 default_filename |->
                     create_default_filename(filename_prefix, duration_s, "left")],
                [frames |-> [i \in DOMAIN img.frames |-> Crop(img.frames[i], right_box)],
                 suffix |-> "right",
                 default_filename |->
                     create_default_filename(filename_prefix, duration_s, "right")] >>
        ELSE << [frames |-> img.frames,
                 suffix |-> "",
                 default_filename |->
                     create_default_filename(filename_prefix, duration_s, "")] >>

\* the file process_gif saves for one item of images_to_process
ProcessedImage(img, item) ==
    LET info == InfoAfterIteration(img)
        original_duration == InfoGet(info.duration, DefaultDuration)
        loop == InfoGet(info.loop, DefaultLoop)
        processed_frames ==
            [i \in DOMAIN item.frames |->
                Quantize(Resize(item.frames[i], TargetSize, TargetSize))]
    IN  SaveGif(processed_frames, original_duration, loop, info.transparency,
                DefaultDisposal)

\* process_gif(input_path, original_filename). firstId numbers the uuids it
\* draws; failAt = k makes the k-th save raise (0: no save raises).
\* raised: "" (returned), "http400" (HTTPException 400) or "error".
process_gif(dir, input_path, original_filename, firstId, failAt) ==
    IF ~CanOpen(dir[input_path])
    THEN [raised |-> "http400", dir |-> dir, results |-> <<>>, drawn |-> 0]
    ELSE
      LET img   == dir[input_path]
          items == images_to_process(img, original_filename)
          n     == Len(items)
          fails == failAt \in 1..n
          saved == IF fails THEN failAt - 1 ELSE n
          name(k) == ServerFilename(firstId + k - 1)
          out ==
              [nm \in (DOMAIN dir) \cup {name(k) : k \in 1..saved} |->
                  IF \E k \in 1..saved : nm = name(k)
                  THEN ProcessedImage(img,
                           items[CHOOSE k \in 1..saved : nm = name(k)])
                  ELSE dir[nm]]
          final_results ==
              [k \in 1..saved |->
                  [url |-> Url(name(k)),
                   duration |-> get_gif_duration(img),
                   default_filename |-> items[k].default_filename]]
      IN  [raised  |-> IF fails THEN "error" ELSE "",
           dir     |-> out,
           results |-> IF fails THEN <<>> ELSE final_results,
           drawn   |-> IF fails THEN failAt ELSE n]

(* ----------------------------- inputs ---------------------------------- *)

RED == <<255, 0, 0>>

TEAL == <<10, 20, 30>>

\* width x height of uploaded GIFs: 2:1, 1:1 and just short of 2:1
Sizes == {<<480, 240>>, <<240, 240>>, <<478, 240>>}

\* the i-th frame of an uploaded GIF, four column samples wide: odd frames
\* have a red left edge, even frames a red right edge, so neither a frame nor
\* its left half is its own mirror image
SourceFrame(size, i) ==
    [size |-> size,
     px   |-> IF i % 2 = 1 THEN <<RED, TEAL, TEAL, TEAL>>
                           ELSE <<TEAL, TEAL, TEAL, RED>>]

\* what an uploaded GIF of n frames carries besides its frames. One frame: no
\* metadata at all, or a duration and a loop count. Several frames: durations
\* growing frame by frame, a loop count and a transparency index
SourceInfos(n) ==
    IF n = 1
    THEN {[durations |-> <<<<>>>>, loop |-> <<>>, transparency |-> <<>>],
          [durations |-> <<<<100>>>>, loop |-> <<0>>, transparency |-> <<>>]}
    ELSE {[durations |-> [i \in 1..n |-> <<500 * i>>], loop |-> <<3>>,
           transparency |-> <<0>>]}

\* uploaded GIFs: single-frame ones and ones of MaxFrames frames
SourceGifs ==
    UNION {
      UNION {
        {Gif([i \in 1..n |-> SourceFrame(size, i)], m.durations, m.loop,
             m.transparency, DefaultDisposal) : m \in SourceInfos(n)}
        : n \in {1, MaxFrames}}
      : size \in Sizes}

\* multipart file field: client file name and bytes
UploadNames ==
    {[stem |-> "cat", ext |-> ".GIF"], [stem |-> "cat", ext |-> ".png"]}

UploadBodies == SourceGifs \cup {GarbageBytes}

\* rgb_map query strings, one character per element
RgbMaps ==
    {<<"r","g","b">>, <<"G","b","R">>, <<"b","g","r">>,
     <<"r","r","b">>, <<"r","g">>, <<"r","g","b","x">>}

\* a name no request ever stored
MissingName == [stem |-> "u0", ext |-> ".gif"]

(* ------------------------------ state ---------------------------------- *)

\* files:   the storage directory, file name -> content
\* nextId:  how many uuids have been drawn, plus one
\* pending: the uploads suspended in "await file.read()"
\* nreq, nupload: requests and uploads accepted so far
\* last:    the last response, and what the request that got it found: for
\*          a successful flip or swap, `before` is its file's content and
\*          `snapshot` whether its original snapshot existed; for a
\*          successful upload, `upload` is the client file name and `body`
\*          the bytes received

NoFiles == [n \in {} |-> EmptyBytes]

NoName == [stem |-> "", ext |-> ""]

\* an error response (HTTPException): only the status is observable
Failure(op, status, temp) ==
    [op |-> op, status |-> status, filename |-> NoName, rgb_map |-> <<>>,
     results |-> <<>>, temp |-> temp, before |-> EmptyBytes, snapshot |-> FALSE,
     upload |-> NoName, body |-> EmptyBytes]

\* JSONResponse {"status": "success", "filename": filename}
Success(op, filename, rgb_map) ==
    [op |-> op, status |-> 200, filename |-> filename, rgb_map |-> rgb_map,
     results |-> <<>>, temp |-> NoName, before |-> files[filename],
     snapshot |-> Exists(files, OriginalPath(filename)),
     upload |-> NoName, body |-> EmptyBytes]

\* JSONResponse {"results": processed_results}
Uploaded(results, temp, filename, body) ==
    [op |-> "upload", status |-> 200, filename |-> NoName, rgb_map |-> <<>>,
     results |-> results, temp |-> temp, before |-> EmptyBytes,
     snapshot |-> FALSE, upload |-> filename, body |-> body]

Init ==
    /\ files = NoFiles
    /\ nextId = 1
    /\ pending = {}
    /\ nreq = 0
    /\ nupload = 0
    /\ last = Failure("none", 0, NoName)

(* ------------------------------ upload --------------------------------- *)

\* file.filename.lower().endswith('.gif')
HasGifSuffix(filename) == LowerExt(filename.ext) = ".gif"

\* upload_gif up to "await file.read()": the suffix check, and the temporary
\* file opened for writing (created empty). Flip and swap requests are served
\* while an upload is suspended there; uploads arrive one after the other.
UploadReceive(filename) ==
    /\ nreq < MaxRequests
    /\ nupload < MaxUploads
    /\ pending = {}
    /\ nreq' = nreq + 1
    /\ nupload' = nupload + 1
    /\ IF ~HasGifSuffix(filename)
       THEN /\ last' = Failure("upload", 400, NoName)
            /\ UNCHANGED <<files, nextId, pending>>
       ELSE /\ files' = WriteFile(files, TempFilename(nextId), EmptyBytes)
            /\ nextId' = nextId + 1
            /\ pending' = pending \cup
                   {[temp |-> TempFilename(nextId), filename |-> filename]}
            /\ UNCHANGED last

\* the status upload_gif answers with when process_gif ended as `raised`:
\* "except Exception" also catches process_gif's own HTTPException
UploadStatus(raised) == IF raised # "" THEN 500 ELSE 200

\* no os.remove(temp_path) in the except branch
RemoveTempOnSuccess(dir, temp_path, raised) ==
    IF raised = "" THEN RemoveFile(dir, temp_path) ELSE dir

\* os.remove(temp_path), in the except branch and after the try statement
RemoveTemp(dir, temp_path, raised) == RemoveFile(dir, temp_path)

\* upload_gif from the point file.read() returns `body`: write the temporary
\* file, run process_gif, remove the temporary file, respond
UploadProcess(p, body, failAt) ==
    LET written == WriteFile(files, p.temp, body)
        r == process_gif(written, p.temp, p.filename, nextId, failAt)
    IN  /\ files' = RemoveTemp(r.dir, p.temp, r.raised)
        /\ nextId' = nextId + r.drawn
        /\ pending' = pending \ {p}
        /\ last' = IF UploadStatus(r.raised) = 200
                   THEN Uploaded(r.results, p.temp, p.filename, body)
                   ELSE Failure("upload", UploadStatus(r.raised), p.temp)
        /\ UNCHANGED <<nreq, nupload>>

(* ------------------------------- flip ---------------------------------- *)

\* the file flip_gif decodes
FlipSource(filepath) == filepath

\* the file flip_gif writes over `img`
FlippedImage(img) ==
    LET info == InfoAfterIteration(img)
    IN  SaveGif([i \in DOMAIN img.frames |-> FlipLeftRight(img.frames[i])],
                InfoGet(info.duration, DefaultDuration),
                InfoGet(info.loop, DefaultLoop),
                info.transparency, DefaultDisposal)

flip_gif(filename) ==
    /\ nreq < MaxRequests
    /\ nreq' = nreq + 1
    /\ UNCHANGED <<nextId, pending, nupload>>
    /\ IF ~Exists(files, filename)
       THEN /\ last' = Failure("flip", 404, NoName)
            /\ UNCHANGED files
       ELSE IF ~CanOpen(files[FlipSource(filename)])
       THEN /\ last' = Failure("flip", 500, NoName)
            /\ UNCHANGED files
       ELSE /\ last' = Success("flip", filename, <<>>)
            /\ files' = WriteFile(files, filename,
                                  FlippedImage(files[FlipSource(filename)]))

(* ----------------------------- swap_rgb -------------------------------- *)

\* the validation without the len(set(...)) test
ValidRgbMapNoSetTest(rgb_map) ==
    /\ Len(rgb_map) = 3
    /\ \A i \in DOMAIN rgb_map : Lower(rgb_map)[i] \in {"r", "g", "b"}

\* len(rgb_map) != 3 or not all(c in 'rgb' for c in rgb_map.lower())
\*                   or len(set(rgb_map.lower())) != 3      (negated)
ValidRgbMap(rgb_map) ==
    /\ Len(rgb_map) = 3
    /\ \A i \in DOMAIN rgb_map : Lower(rgb_map)[i] \in {"r", "g", "b"}
    /\ Cardinality(Range(Lower(rgb_map))) = 3

\* the snapshot copied on every call, without the os.path.exists test
ensure_original_overwrites(dir, filepath) ==
    WriteFile(dir, OriginalPath(filepath), dir[filepath])

\* _ensure_original_exists(filepath): the directory afterwards
ensure_original_exists(dir, filepath) ==
    IF ~Exists(dir, OriginalPath(filepath))
    THEN WriteFile(dir, OriginalPath(filepath), dir[filepath])
    ELSE dir

\* the file swap_rgb_gif writes, computed from the original snapshot `img`
SwappedImage(img, rgb_map) ==
    LET info == InfoAfterIteration(img)
        indices == channel_map_indices(rgb_map)
    IN  SaveGif([i \in DOMAIN img.frames |->
                    Quantize(SwapFrame(img.frames[i], indices))],
                InfoGet(info.duration, DefaultDuration),
                InfoGet(info.loop, DefaultLoop),
                info.transparency,
                IF info.transparency # <<>> THEN TransparentDisposal
                                            ELSE DefaultDisposal)

\* Image.open(filepath) in place of Image.open(original_filepath)
SwapSourceCurrent(filepath) == filepath

\* the file the non-identity branch decodes: Image.open(original_filepath)
SwapSource(filepath) == OriginalPath(filepath)

\* rgb_map.lower() == 'rgb'
IsRevert(rgb_map) == Lower(rgb_map) = <<"r", "g", "b">>

swap_rgb_gif(filename, rgb_map) ==
    /\ nreq < MaxRequests
    /\ nreq' = nreq + 1
    /\ UNCHANGED <<nextId, pending, nupload>>
    /\ IF ~Exists(files, filename)
       THEN /\ last' = Failure("swap_rgb", 404, NoName)
            /\ UNCHANGED files
       ELSE IF ~ValidRgbMap(rgb_map)
       THEN /\ last' = Failure("swap_rgb", 400, NoName)
            /\ UNCHANGED files
       ELSE
         LET dir == ensure_original_exists(files, filename)
             original_filepath == OriginalPath(filename)
         IN  IF IsRevert(rgb_map)
             THEN /\ last' = Success("swap_rgb", filename, rgb_map)
                  /\ files' = WriteFile(dir, filename, dir[original_filepath])
             ELSE IF ~CanOpen(dir[SwapSource(filename)])
             THEN /\ last' = Failure("swap_rgb", 500, NoName)
                  /\ files' = dir
             ELSE /\ last' = Success("swap_rgb", filename, rgb_map)
                  /\ files' = WriteFile(dir, filename,
                                  SwappedImage(dir[SwapSource(filename)], rgb_map))

(* --------------------------- specification ----------------------------- *)

\* the filename query parameter: any stored file, or a name never stored
RequestNames == (DOMAIN files) \cup {MissingName}

Next ==
    \/ \E filename \in UploadNames : UploadReceive(filename)
    \/ \E p \in pending, body \in UploadBodies, failAt \in 0..2 :
           UploadProcess(p, body, failAt)
    \/ \E filename \in RequestNames : flip_gif(filename)
    \/ \E filename \in RequestNames, rgb_map \in RgbMaps :
           swap_rgb_gif(filename, rgb_map)

Spec == Init /\ [][Next]_vars

(* ======================= properties of the service ===================== *)

\* the channel a letter of an rgb_map names: 1 red, 2 green, 3 blue, 0 none
Letter(c) ==
    IF c \in {"r", "R"} THEN 1
    ELSE IF c \in {"g", "G"} THEN 2
    ELSE IF c \in {"b", "B"} THEN 3
    ELSE 0

\* a length-3, case-insensitive permutation of r, g, b
IsPermutation(m) == Len(m) = 3 /\ {Letter(m[i]) : i \in 1..3} = {1, 2, 3}

IsIdentity(m) == IsPermutation(m) /\ \A i \in 1..3 : Letter(m[i]) = i

\* pixel p with R = p[m[0]], G = p[m[1]], B = p[m[2]]
Permuted(p, m) == <<p[Letter(m[1])], p[Letter(m[2])], p[Letter(m[3])]>>

\* the column samples of every frame of a stored GIF
Pixels(c) == [i \in DOMAIN c.frames |-> c.frames[i].px]

PermutedPixels(c, m) ==
    [i \in DOMAIN c.frames |->
        [j \in DOMAIN c.frames[i].px |-> Permuted(c.frames[i].px[j], m)]]

MirroredPixels(c) ==
    [i \in DOMAIN c.frames |->
        [j \in DOMAIN c.frames[i].px |->
            c.frames[i].px[Len(c.frames[i].px) + 1 - j]]]

\* the step answers a flip or swap_rgb request
Answers(op) == nreq' = nreq + 1 /\ nupload' = nupload /\ last'.op = op

\* the last response is a successful swap_rgb with a non-identity mapping
SwappedLast ==
    /\ last.op = "swap_rgb"
    /\ last.status = 200
    /\ ~IsIdentity(last.rgb_map)

\* the artifacts' snapshots: <id>_original.gif for every uuid drawn so far
Snapshots == {OriginalPath(ServerFilename(k)) : k \in 1..nextId}

\* ---- C1: once the snapshot <id>_original.gif of an artifact exists, no
\* request (upload, flip or swap_rgb on any stored file name) changes its
\* content. Stated as the claim; the code violates it.
C1_SnapshotWriteOnce ==
    [][\A n \in Snapshots :
          Exists(files, n) => Exists(files', n) /\ files'[n] = files[n]]_vars

\* ---- C2: after a successful swap_rgb(x, m) with a valid non-identity m the
\* current file's pixels are permute(original snapshot, m), whatever the
\* current file held before; and repeating the same swap on the same file
\* leaves the current file as the first swap left it.
C2_FromSnapshot ==
    SwappedLast =>
        /\ Exists(files, OriginalPath(last.filename))
        /\ IsGif(files[last.filename])
        /\ Pixels(files[last.filename]) =
               PermutedPixels(files[OriginalPath(last.filename)], last.rgb_map)

C2_Repeated ==
    (/\ SwappedLast
     /\ Answers("swap_rgb")
     /\ last'.status = 200
     /\ last'.filename = last.filename
     /\ last'.rgb_map = last.rgb_map)
    => files'[last.filename] = files[last.filename]

C2_NonCompounding == []C2_FromSnapshot /\ [][C2_Repeated]_vars

\* swap_rgb(x, m) answered, after some earlier swap of x had already changed x
C2_Witness ==
    /\ SwappedLast
    /\ last.snapshot
    /\ IsGif(last.before)
    /\ Pixels(last.before) # Pixels(files[OriginalPath(last.filename)])
    /\ Pixels(files[last.filename]) # Pixels(files[OriginalPath(last.filename)])

\* the step answers swap_rgb(x, "rgb") with success right after a successful
\* swap_rgb(x, m), m valid and not the identity
RevertsLast ==
    /\ SwappedLast
    /\ Answers("swap_rgb")
    /\ last'.status = 200
    /\ last'.filename = last.filename
    /\ IsIdentity(last'.rgb_map)

\* ---- C3 as claimed: swap_rgb(x, m) then swap_rgb(x, "rgb") leaves x with
\* the content it had before the first swap.
C3_RevertRestoresBefore ==
    [][RevertsLast => files'[last.filename] = last.before]_vars

\* ---- C3 as amended: swap_rgb(x, m) then swap_rgb(x, "rgb") leaves x with
\* the content of its original snapshot, which is untouched; that is the
\* content x had before the first swap when x had no snapshot before it.
C3_RevertRestoresSnapshot ==
    [][RevertsLast =>
          /\ files'[last.filename] = files[OriginalPath(last.filename)]
          /\ files'[OriginalPath(last.filename)] =
                 files[OriginalPath(last.filename)]
          /\ (~last.snapshot => files'[last.filename] = last.before)]_vars

\* a revert answered: x, which held a swapped image, equals its snapshot again
C3_Witness ==
    /\ last.op = "swap_rgb"
    /\ last.status = 200
    /\ IsIdentity(last.rgb_map)
    /\ IsGif(last.before)
    /\ \E m \in RgbMaps :
          /\ IsPermutation(m) /\ ~IsIdentity(m)
          /\ Pixels(last.before) =
                 PermutedPixels(files[OriginalPath(last.filename)], m)
    /\ files[last.filename] = files[OriginalPath(last.filename)]
    /\ files[last.filename] # last.before

\* ---- C4: an upload whose name ends in .gif but whose bytes are no image is
\* answered 400. Stated as the claim; the code violates it.
C4_DecodeFailureIs400 ==
    [][\A p \in pending, failAt \in 0..2 :
          UploadProcess(p, GarbageBytes, failAt) => last'.status = 400]_vars

\* the rgb_map inputs that are no permutation of r, g, b, and those that are
InvalidMaps == {m \in RgbMaps : ~IsPermutation(m)}

PermutationMaps == RgbMaps \ InvalidMaps

\* ---- C5 as claimed: swap_rgb with an rgb_map that is no permutation of
\* r, g, b is answered 400 whatever the filename, and no file is created or
\* changed; every permutation passes validation.
C5_InvalidMapIs400 ==
    [][\A f \in RequestNames, m \in RgbMaps :
          swap_rgb_gif(f, m) =>
              /\ ~IsPermutation(m) => last'.status = 400 /\ files' = files
              /\ IsPermutation(m) => last'.status # 400]_vars

\* ---- C5 as amended: swap_rgb on a stored file with an rgb_map that is no
\* permutation of r, g, b is answered 400 (404 when no such file is stored,
\* which is checked first), and no file is created or changed; every
\* permutation passes validation: no swap_rgb with one is answered 400.
C5_InvalidMapRejected ==
    [][Answers("swap_rgb") =>
          /\ \A f \in RequestNames, m \in InvalidMaps :
                 swap_rgb_gif(f, m) =>
                     /\ last'.status = IF Exists(files, f) THEN 400 ELSE 404
                     /\ files' = files
          /\ last'.status = 400 =>
                 \A f \in RequestNames, m \in PermutationMaps :
                     ~swap_rgb_gif(f, m)]_vars

\* an invalid rgb_map was rejected while artifacts are stored, none of them
\* with a snapshot
C5_Witness ==
    /\ last.op = "swap_rgb"
    /\ last.status = 400
    /\ \E k \in 1..nextId : Exists(files, ServerFilename(k))
    /\ \A n \in DOMAIN files : ~Exists(files, OriginalPath(n))

\* the stored file a result entry's url points to
Artifact(dir, result) ==
    dir[CHOOSE n \in DOMAIN dir : Url(n) = result.url]

\* the step is an upload responding with success
UploadedNow ==
    /\ nreq' = nreq
    /\ pending' # pending
    /\ last'.op = "upload"
    /\ last'.status = 200

\* ---- C6: every artifact of a successful upload has as many frames as the
\* source, and its i-th frame the duration of the source's i-th frame (100 ms
\* where the source frame carries none). Stated as the claim; the code
\* violates it.
C6_DurationsPreserved ==
    [][UploadedNow =>
          \A k \in DOMAIN last'.results :
              LET a    == Artifact(files', last'.results[k])
                  body == last'.body
              IN  /\ Len(a.frames) = Len(body.frames)
                  /\ \A i \in DOMAIN body.frames :
                        a.durations[i] =
                            <<InfoGet(body.durations[i], DefaultDuration)>>]_vars

\* the samples of the columns from..to of every frame
Columns(c, from, to) ==
    [i \in DOMAIN c.frames |-> SubSeq(c.frames[i].px, from, to)]

\* a display name: the client name's prefix, the reported duration, then
\* "s.gif", "s_left.gif" or "s_right.gif"
DisplayName(prefix, result, ending) ==
    prefix \o "_" \o DurationStr(result.duration) \o ending

\* what a successful upload of `body` under the client name `filename` must
\* have stored and returned
SplitDecision(filename, body, dir, dir2, results) ==
    LET width  == body.frames[1].size[1]
        height == body.frames[1].size[2]
        half   == Len(body.frames[1].px) \div 2
        new    == (DOMAIN dir2) \ (DOMAIN dir)
        art(k) == Artifact(dir2, results[k])
    IN  /\ Cardinality(new) = Len(results)
        /\ \A k \in DOMAIN results :
              /\ \E n \in new : Url(n) = results[k].url
              /\ \A i \in DOMAIN art(k).frames :
                    art(k).frames[i].size = <<240, 240>>
        /\ IF width = 2 * height
           THEN /\ Len(results) = 2
                /\ results[1].url # results[2].url
                /\ Pixels(art(1)) = Columns(body, 1, half)
                /\ Pixels(art(2)) = Columns(body, half + 1, 2 * half)
                /\ results[1].default_filename =
                       DisplayName(filename.stem, results[1], "s_left.gif")
                /\ results[2].default_filename =
                       DisplayName(filename.stem, results[2], "s_right.gif")
           ELSE /\ Len(results) = 1
                /\ Pixels(art(1)) = Pixels(body)
                /\ results[1].default_filename =
                       DisplayName(filename.stem, results[1], "s.gif")

\* ---- C7: a successful upload of a GIF with width = 2 * height stores and
\* returns exactly two artifacts, the left half (suffix "left") then the
\* right half (suffix "right"); with any other ratio exactly one artifact,
\* without a side suffix; every artifact is 240 x 240.
C7_SplitDecision ==
    [][UploadedNow =>
          SplitDecision(last'.upload, last'.body, files, files',
                        last'.results)]_vars

\* a 2:1 upload answered with two artifacts whose halves differ
C7_Witness ==
    /\ last.op = "upload"
    /\ last.status = 200
    /\ Len(last.results) = 2
    /\ Pixels(Artifact(files, last.results[1])) #
           Pixels(Artifact(files, last.results[2]))

C10_FlipStep ==
    (Answers("flip") /\ last'.status = 200) =>
        /\ DOMAIN files' = DOMAIN files
        /\ \A n \in DOMAIN files : n # last'.filename => files'[n] = files[n]
        /\ Len(files'[last'.filename].frames) = Len(files[last'.filename].frames)
        /\ Pixels(files'[last'.filename]) = MirroredPixels(files[last'.filename])

C10_FlipTwice ==
    (/\ last.op = "flip"
     /\ last.status = 200
     /\ Answers("flip")
     /\ last'.status = 200
     /\ last'.filename = last.filename)
    => /\ Len(files'[last.filename].frames) = Len(last.before.frames)
       /\ Pixels(files'[last.filename]) = Pixels(last.before)

C10_FlipInvolution == [][C10_FlipStep /\ C10_FlipTwice]_vars

\* a flip of a file that has a different snapshot changed the file's pixels
C10_Witness ==
    /\ last.op = "flip"
    /\ last.status = 200
    /\ Pixels(files[last.filename]) # Pixels(last.before)
    /\ Exists(files, OriginalPath(last.filename))
    /\ Pixels(files[OriginalPath(last.filename)]) = Pixels(last.before)

====
